---- MODULE Spec2Model ----
(***************************************************************************)
(* Model of ceph_monitoring/cluster.py: CephCluster.load() building the    *)
(* in-memory cluster model out of a collected artifact bundle.             *)
(*                                                                         *)
(* The artifact bundle (self.storage) is the input.  It is chosen in Init  *)
(* and never changes.  Every phase of load() is one action; an exception   *)
(* raised inside a phase leaves the partial effects the code has already   *)
(* made and moves the load to "failed".                                    *)
(*                                                                         *)
(* Encodings                                                               *)
(*   None / optional value    : <<>> is None, <<x>> is the value x         *)
(*   dict                     : a function; "key in dict" is DOMAIN        *)
(*   host directory name      : <<ip, name>>  for  "ip-name"               *)
(*   IPv4 address             : <<first octet, host part>>                 *)
(*   IPv4 network             : its first octet                            *)
(*   Python object identity   : Host objects are keyed by their stor_id,   *)
(*                              CephOSD objects by their creation index    *)
(*   a quotient a / b         : the pair [num |-> a, den |-> b]            *)
(***************************************************************************)
EXTENDS Integers, Sequences, FiniteSets, TLC

(***************************************************************************)
(* Bounds of the model.                                                    *)
(***************************************************************************)
MaxKb == 7              \* kb_used and kb_avail of an OSD usage record
MaxSnapshots == 3       \* snapshots of one perf_dump
MaxCounter == 1         \* a counter (sum or avgcount) of a snapshot
MaxOsds == 2            \* entries of the cluster dump
MaxMons == 2            \* monitors listed by the bundle
MaxCategories == 2      \* categories of a pool usage record
MaxStamp == 4           \* newline-separated fields of the collected_at artifact
MaxIp == 2              \* host parts of the addresses of an adapter
MaxWindow == 2          \* seconds between the first and the last sample
MaxPgs == 2             \* PG records of the consolidated PG dump

(***************************************************************************)
(* Generic helpers.                                                        *)
(***************************************************************************)
None == << >>
Some(x) == << x >>
IsNone(o) == Len(o) = 0
Val(o) == o[1]

NoErr == ""

RECURSIVE SumSeq(_)
SumSeq(s) == IF Len(s) = 0 THEN 0 ELSE Head(s) + SumSeq(Tail(s))

RECURSIVE SeqToSet(_)
SeqToSet(s) == IF Len(s) = 0 THEN {} ELSE {Head(s)} \cup SeqToSet(Tail(s))

\* dict.update / item assignment
Put(d, k, v) == [x \in DOMAIN d \cup {k} |-> IF x = k THEN v ELSE d[x]]
Update(d, e) == [x \in DOMAIN d \cup DOMAIN e |-> IF x \in DOMAIN e THEN e[x] ELSE d[x]]
Remove(d, k) == [x \in DOMAIN d \ {k} |-> d[x]]
EmptyDict == [x \in {} |-> 0]

\* collections.Counter lookup: a missing key counts 0
Count(c, k) == IF k \in DOMAIN c THEN c[k] ELSE 0

NO_VALUE == -1

VARIABLES
    storage,                 \* the artifact bundle (input)
    pc,                      \* the phase load() is about to run, "done" or "failed"
    error,                   \* the exception that ended the load, NoErr if none
    ran,                     \* phases started so far, in order
    settings,                \* self.settings (set of keys present), None before
    cluster_net, public_net, \* self.cluster_net, self.public_net
    is_luminous,             \* self.is_luminous
    crush,                   \* self.crush
    perf_data,               \* self.perf_data
    osd_perf_dump,           \* self.osd_perf_dump
    osd_historic_ops_paths,  \* self.osd_historic_ops_paths
    osd_historicjs_ops_paths,\* self.osd_historicjs_ops_paths
    has_performance_data,    \* self.has_performance_data
    overall_status,          \* self.overall_status (stands for all health counters)
    host_obj,                \* heap of Host objects: stor_id -> Host
    hosts,                   \* self.hosts: name -> Host object (stor_id)
    ip2host,                 \* self.ip2host: ip -> Host object (stor_id)
    log,                     \* messages written to the logger, in order
    pg,                      \* osd_pool_pg_2d, sum_per_pool, sum_per_osd
    osd_obj,                 \* heap of CephOSD objects: creation index -> CephOSD
    osds,                    \* self.osds: list of CephOSD objects (creation indexes)
    osd_map,                 \* self.osd_map: key -> CephOSD object
    pools,                   \* self.pools: id -> Pool attributes
    mons,                    \* self.mons
    report_collected_at      \* (report_collected_at_local, report_collected_at_gmt)

vars == << storage, pc, error, ran, settings, cluster_net, public_net, is_luminous,
           crush, perf_data, osd_perf_dump, osd_historic_ops_paths,
           osd_historicjs_ops_paths, has_performance_data, overall_status,
           host_obj, hosts, ip2host, log, pg, osd_obj, osds, osd_map, pools, mons,
           report_collected_at >>

(***************************************************************************)
(* CephCluster.load: the order of the phases.                              *)
(***************************************************************************)
PhaseOrder == << "settings", "luminous", "crush", "perf_monitoring", "ceph_settings",
                 "hosts", "pg_distribution", "osds", "pools", "monitors",
                 "collected_at" >>

PhaseIndex(p) == CHOOSE i \in 1..Len(PhaseOrder) : PhaseOrder[i] = p

\* variant: load_osds called before load_PG_distribution
NextPhaseSwapped(p) ==
    CASE p = "hosts" -> "osds"
      [] p = "osds" -> "pg_distribution"
      [] p = "pg_distribution" -> "pools"
      [] p = "collected_at" -> "done"
      [] OTHER -> PhaseOrder[PhaseIndex(p) + 1]

NextPhase(p) ==
    IF PhaseIndex(p) = Len(PhaseOrder) THEN "done" ELSE PhaseOrder[PhaseIndex(p) + 1]

\* what every phase does to the control state: continue, or abort with err
Control(p, err) ==
    /\ pc = p
    /\ ran' = Append(ran, p)
    /\ error' = err
    /\ pc' = IF err = NoErr THEN NextPhase(p) ELSE "failed"
    /\ storage' = storage

(***************************************************************************)
(* Phase 1: settings and subnets (load, lines 331-333).                    *)
(* storage.default_config maps the keys of the flat config to their values;*)
(* a subnet value is the network's first octet.                            *)
(***************************************************************************)
LoadSettings ==
    LET cfg == storage.default_config
        err == IF {"cluster_network", "public_network"} \subseteq DOMAIN cfg
               THEN NoErr ELSE "KeyError"
    IN  /\ Control("settings", err)
        /\ settings' = Some(cfg)
        /\ cluster_net' = IF "cluster_network" \in DOMAIN cfg
                          THEN Some(cfg["cluster_network"]) ELSE cluster_net
        /\ public_net' = IF err = NoErr THEN Some(cfg["public_network"]) ELSE public_net
        /\ UNCHANGED << is_luminous, crush, perf_data, osd_perf_dump,
                        osd_historic_ops_paths, osd_historicjs_ops_paths,
                        has_performance_data, overall_status, host_obj, hosts,
                        ip2host, log, pg, osd_obj, osds, osd_map, pools, mons,
                        report_collected_at >>

(***************************************************************************)
(* Phase 2: luminous detection (load, lines 335-339).                      *)
(* storage.mon_release is the feature-map release, None when the field is  *)
(* absent (KeyError, caught).                                              *)
(***************************************************************************)
DetectLuminous ==
    /\ Control("luminous", NoErr)
    /\ is_luminous' = IF IsNone(storage.mon_release) THEN FALSE
                      ELSE Val(storage.mon_release) = "luminous"
    /\ UNCHANGED << settings, cluster_net, public_net, crush, perf_data, osd_perf_dump,
                    osd_historic_ops_paths, osd_historicjs_ops_paths,
                    has_performance_data, overall_status, host_obj, hosts,
                    ip2host, log, pg, osd_obj, osds, osd_map, pools, mons,
                    report_collected_at >>

(***************************************************************************)
(* Phase 3: crush map (load, line 341); the map itself is opaque.          *)
(***************************************************************************)
LoadCrush ==
    /\ Control("crush", NoErr)
    /\ crush' = Some(storage.crushmap)
    /\ UNCHANGED << settings, cluster_net, public_net, is_luminous, perf_data,
                    osd_perf_dump, osd_historic_ops_paths, osd_historicjs_ops_paths,
                    has_performance_data, overall_status, host_obj, hosts,
                    ip2host, log, pg, osd_obj, osds, osd_map, pools, mons,
                    report_collected_at >>

(***************************************************************************)
(* Phase 4: performance raw data (load_perf_monitoring, lines 361-415).    *)
(* storage.perf_monitoring is None when the bundle has no perf_monitoring  *)
(* entry, else the listing of host directories << <<host_id, dir>>, ... >>.*)
(* A directory dir holds                                                   *)
(*   collected_at : None or the raw array of collected_at.csv              *)
(*   csv          : <<sensor, dev, metric>> -> samples of a .csv file      *)
(*   perf_dump    : osd id -> snapshots of ceph.osdN.perf_dump.json        *)
(*   historic     : osd ids with a ceph.osdN.historic.bin                  *)
(*   historic_js  : osd ids with a ceph.osdN.historic_js.json              *)
(***************************************************************************)
\* numpy.array(data)[::2]
EveryOther(s) == [i \in 1..((Len(s) + 1) \div 2) |-> s[2 * i - 1]]

\* host_data.setdefault(sensor, {}).setdefault(dev, {})[metric] = data, for all csv files
SensorTree(csv) ==
    LET sensors == {k[1] : k \in DOMAIN csv}
        devs(s) == {k[2] : k \in {x \in DOMAIN csv : x[1] = s}}
        metrics(s, d) == {k[3] : k \in {x \in DOMAIN csv : x[1] = s /\ x[2] = d}}
    IN  [s \in sensors |-> [d \in devs(s) |-> [m \in metrics(s, d) |-> csv[<<s, d, m>>]]]]

HostData(dir) ==
    [collected_at |-> IF IsNone(dir.collected_at) THEN None
                      ELSE Some(EveryOther(Val(dir.collected_at))),
     sensors |-> SensorTree(dir.csv)]

HistoricPath(host_id, osd_id, kind) == << "perf_monitoring", host_id, osd_id, kind >>

RECURSIVE PerfLoop(_, _)
PerfLoop(listing, acc) ==
    IF Len(listing) = 0 THEN acc
    ELSE LET host_id == Head(listing)[1]
             dir == Head(listing)[2]
         IN  PerfLoop(Tail(listing),
               [all_data |-> Put(acc.all_data, host_id, HostData(dir)),
                osd_perf_dump |-> Update(acc.osd_perf_dump, dir.perf_dump),
                historic |-> Update(acc.historic,
                    [o \in dir.historic |-> HistoricPath(host_id, o, "bin")]),
                historic_js |-> Update(acc.historic_js,
                    [o \in dir.historic_js |-> HistoricPath(host_id, o, "json")])])

LoadPerfMonitoring ==
    LET res == PerfLoop(Val(storage.perf_monitoring),
                        [all_data |-> EmptyDict, osd_perf_dump |-> EmptyDict,
                         historic |-> EmptyDict, historic_js |-> EmptyDict])
        absent == IsNone(storage.perf_monitoring)
    IN  /\ Control("perf_monitoring", NoErr)
        /\ perf_data' = IF absent THEN None ELSE Some(res.all_data)
        /\ osd_perf_dump' = IF absent THEN None ELSE Some(res.osd_perf_dump)
        /\ osd_historic_ops_paths' = IF absent THEN None ELSE Some(res.historic)
        /\ osd_historicjs_ops_paths' = IF absent THEN None ELSE Some(res.historic_js)
        /\ has_performance_data' = ~absent
        /\ UNCHANGED << settings, cluster_net, public_net, is_luminous, crush,
                        overall_status, host_obj, hosts, ip2host, log, pg, osd_obj,
                        osds, osd_map, pools, mons, report_collected_at >>

(***************************************************************************)
(* Phase 5: health/capacity counters (load_ceph_settings, lines 417-430).  *)
(* The status JSON is taken to be well formed; overall_status stands for   *)
(* all the counters copied from it.                                        *)
(***************************************************************************)
LoadCephSettings ==
    /\ Control("ceph_settings", NoErr)
    /\ overall_status' = Some(storage.overall_status)
    /\ UNCHANGED << settings, cluster_net, public_net, is_luminous, crush, perf_data,
                    osd_perf_dump, osd_historic_ops_paths, osd_historicjs_ops_paths,
                    has_performance_data, host_obj, hosts, ip2host, log, pg, osd_obj,
                    osds, osd_map, pools, mons, report_collected_at >>

(***************************************************************************)
(* Phase 6: hosts (load_hosts, lines 432-498).                             *)
(* storage.hosts is the listing of host directories (stor_ids) and         *)
(* storage.host_node[stor_id] holds                                        *)
(*   lsblk      : names of the block devices of type disk                  *)
(*   interfaces : the 'dev' names of the interface listing, in order       *)
(*   ipa4       : the inet lines of the ip dump, << <<adapter, ip>>, ... >>*)
(* The memory, socket, uptime and hardware artifacts are taken to be well  *)
(* formed and are left out.                                                *)
(***************************************************************************)
Quot(n, d) == [num |-> n, den |-> d]

\* a deterministic listing order of the keys of a dict
RECURSIVE SetToSeq(_)
SetToSeq(S) == IF S = {} THEN << >>
               ELSE LET x == CHOOSE y \in S : TRUE IN << x >> \o SetToSeq(S \ {x})

\* variant: a disk is named by the bare device name
DevPathBare(name) == name

\* parse_lsblkjs: '/dev/' + name
DevPath(name) == "/dev/" \o name

NewDisk(path) == [name |-> path, load |-> None]

\* load_hdds, lines 549-560
LoadHdds(node) == [d \in {DevPath(n) : n \in node.lsblk} |-> NewDisk(d)]

DiskCounters == {"sectors_read", "sectors_written", "reads_completed",
                 "writes_completed", "io_time", "weighted_io_time"}

\* lines 570-579
DiskLoad(data, dtime) ==
    LET r == SumSeq(data["reads_completed"])
        w == SumSeq(data["writes_completed"])
    IN  [read_bytes |-> Quot(SumSeq(data["sectors_read"]), dtime),
         write_bytes |-> Quot(SumSeq(data["sectors_written"]), dtime),
         read_iops |-> Quot(r, dtime),
         write_iops |-> Quot(w, dtime),
         io_time |-> Quot(SumSeq(data["io_time"]), 1000 * dtime),
         w_io_time |-> Quot(SumSeq(data["weighted_io_time"]), 1000 * dtime),
         iops |-> Quot(r + w, dtime),
         queue_depth |-> Quot(SumSeq(data["weighted_io_time"]), 1000 * dtime),
         lat |-> IF (r + w) * 100000 > dtime
                 THEN Some(Quot(SumSeq(data["weighted_io_time"]), 1000 * (r + w)))
                 ELSE None]

\* fill_io_devices_usage_stats, lines 562-580: the loop over io_data.items()
RECURSIVE FillIoLoop(_, _, _, _)
FillIoLoop(devs, io_data, dtime, acc) ==
    IF Len(devs) = 0 \/ acc.err # NoErr THEN acc
    ELSE LET dev == Head(devs)
             data == io_data[dev]
         IN  IF dev \in DOMAIN acc.disks /\ dtime > 1
             THEN IF DiskCounters \subseteq DOMAIN data
                  THEN FillIoLoop(Tail(devs), io_data, dtime,
                         [acc EXCEPT !.disks[dev].load = Some(DiskLoad(data, dtime))])
                  ELSE [acc EXCEPT !.err = "KeyError"]
             ELSE FillIoLoop(Tail(devs), io_data, dtime, acc)

FillIoDevicesUsageStats(disks, pm) ==
    IF "block-io" \notin DOMAIN pm.sensors THEN [disks |-> disks, err |-> NoErr]
    ELSE LET ca == Val(pm.collected_at)
             dtime == ca[Len(ca)] - ca[1]
         IN  FillIoLoop(SetToSeq(DOMAIN pm.sensors["block-io"]),
                        pm.sensors["block-io"], dtime, [disks |-> disks, err |-> NoErr])

NetMetrics == << "send_bytes", "send_packets", "recv_packets", "recv_bytes" >>

Avg(metric) == metric \o "_avg"

EmptyNetLoad ==
    [a \in SeqToSet(NetMetrics) \cup {Avg(m) : m \in SeqToSet(NetMetrics)} |-> None]

\* variant: the break leaves the NetLoad filled so far attached
RECURSIVE NetLoadLoopPartial(_, _, _, _)
NetLoadLoopPartial(metrics, load_node, dtime, load) ==
    IF Len(metrics) = 0 \/ Head(metrics) \notin DOMAIN load_node THEN Some(load)
    ELSE NetLoadLoopPartial(Tail(metrics), load_node, dtime,
           [load EXCEPT ![Head(metrics)] = Some(load_node[Head(metrics)]),
                        ![Avg(Head(metrics))] =
                            Some(Quot(SumSeq(load_node[Head(metrics)]), dtime))])

\* lines 523-530: the for/else over the four metrics
RECURSIVE NetLoadLoop(_, _, _, _)
NetLoadLoop(metrics, load_node, dtime, load) ==
    IF Len(metrics) = 0 THEN Some(load)
    ELSE LET metric == Head(metrics)
         IN  IF metric \notin DOMAIN load_node THEN None
             ELSE NetLoadLoop(Tail(metrics), load_node, dtime,
                    [load EXCEPT ![metric] = Some(load_node[metric]),
                                 ![Avg(metric)] = Some(Quot(SumSeq(load_node[metric]), dtime))])

\* variant: the NetLoad is attached whether or not samples exist
AdapterLoadAlways(dev, pm, dtime) == Some(EmptyNetLoad)

\* lines 519-530; dtime is None or the window
AdapterLoad(dev, pm, dtime) ==
    IF ~IsNone(dtime) /\ Val(dtime) # 0 /\ Val(dtime) > 1 /\ ~IsNone(pm)
    THEN LET sensors == Val(pm).sensors
             net_io == IF "net-io" \in DOMAIN sensors THEN sensors["net-io"] ELSE EmptyDict
             load_node == IF dev \in DOMAIN net_io THEN net_io[dev] ELSE EmptyDict
         IN  NetLoadLoop(NetMetrics, load_node, Val(dtime), EmptyNetLoad)
    ELSE None

NewAdapter(dev) == [name |-> dev, ips |-> << >>, load |-> None]

\* lines 532-545: attach the addresses of the inet lines
RECURSIVE IpaLoop(_, _)
IpaLoop(lines, acc) ==
    IF Len(lines) = 0 THEN acc
    ELSE LET dev_name == Head(lines)[1]
             ip_addr == Head(lines)[2]
         IN  IF dev_name \in DOMAIN acc.net_adapters
             THEN IpaLoop(Tail(lines),
                    [acc EXCEPT !.net_adapters[dev_name].ips = Append(@, ip_addr)])
             ELSE IpaLoop(Tail(lines), [acc EXCEPT !.log = Append(@, "unknown_adapter")])

\* load_interfaces, lines 500-547
LoadInterfaces(node, pm, dtime, lg) ==
    IpaLoop(node.ipa4,
            [net_adapters |-> [dev \in SeqToSet(node.interfaces) |->
                                  [NewAdapter(dev) EXCEPT !.load = AdapterLoad(dev, pm, dtime)]],
             log |-> lg])

IsLoopback(ip) == ip[1] = 127

InNet(ip, net) == ip[1] = net

NewHost(name, stor_id) ==
    [name |-> name, stor_id |-> stor_id, net_adapters |-> EmptyDict, disks |-> EmptyDict,
     perf_monitoring |-> None, ceph_cluster_adapter |-> None,
     ceph_public_adapter |-> None, osd_ids |-> {}, mon_name |-> None]

\* lines 484-498: all <<adapter, ip>> pairs in the order the two loops visit them
RECURSIVE AdapterIps(_, _)
AdapterIps(order, adapters) ==
    IF Len(order) = 0 THEN << >>
    ELSE [i \in 1..Len(adapters[Head(order)].ips) |->
             << Head(order), adapters[Head(order)].ips[i] >>]
         \o AdapterIps(Tail(order), adapters)

\* variant: an address is never taken to be claimed already
ClaimedNever(ip, index) == FALSE

\* line 487: ip_s in self.ip2host
Claimed(ip, index) == ip \in DOMAIN index

\* lines 484-498: a claimed address is logged and skipped (continue), any
\* other one is registered and sets the adapter slots by subnet membership
RECURSIVE ClassifyLoop(_, _, _)
ClassifyLoop(pairs, sid, st) ==
    IF Len(pairs) = 0 THEN st
    ELSE LET adapter == Head(pairs)[1]
             ip == Head(pairs)[2]
         IN  IF IsLoopback(ip) THEN ClassifyLoop(Tail(pairs), sid, st)
             ELSE IF Claimed(ip, st.ip2host)
             THEN ClassifyLoop(Tail(pairs), sid, [st EXCEPT !.log = Append(@, "duplicate_ip")])
             ELSE ClassifyLoop(Tail(pairs), sid,
                    [st EXCEPT !.ip2host = Put(@, ip, sid),
                               !.host_obj[sid].ceph_cluster_adapter =
                                   IF InNet(ip, Val(cluster_net)) THEN Some(adapter) ELSE @,
                               !.host_obj[sid].ceph_public_adapter =
                                   IF InNet(ip, Val(public_net)) THEN Some(adapter) ELSE @])

\* the body of the loop over the host directories, lines 438-498
LoadHost(st, sid) ==
    LET host_name == sid[2]
        node == storage.host_node[sid]
        disks == LoadHdds(node)
        pm == IF has_performance_data /\ sid \in DOMAIN Val(perf_data)
              THEN Some(Val(perf_data)[sid]) ELSE None
        \* lines 470-474
        err1 == IF ~has_performance_data THEN NoErr
                ELSE IF IsNone(pm) THEN "TypeError"
                ELSE IF IsNone(Val(pm).collected_at) THEN "KeyError"
                ELSE NoErr
        \* lines 476-480
        err2 == IF err1 = NoErr /\ ~IsNone(pm) /\ Len(Val(Val(pm).collected_at)) = 0
                THEN "IndexError" ELSE err1
        ca == Val(Val(pm).collected_at)
        dtime == IF IsNone(pm) THEN None ELSE Some(ca[Len(ca)] - ca[1])
        filled == IF IsNone(pm) THEN [disks |-> disks, err |-> NoErr]
                  ELSE FillIoDevicesUsageStats(disks, Val(pm))
        h0 == [NewHost(host_name, sid) EXCEPT !.disks = disks, !.perf_monitoring = pm]
        st0 == [st EXCEPT !.host_obj = Put(@, sid, h0), !.hosts = Put(@, host_name, sid)]
    IN  IF err2 # NoErr THEN [st0 EXCEPT !.err = err2]
        ELSE IF filled.err # NoErr
        THEN [st0 EXCEPT !.host_obj[sid].disks = filled.disks, !.err = filled.err]
        ELSE LET ifs == LoadInterfaces(node, pm, dtime, st.log)
                 st1 == [st0 EXCEPT !.host_obj[sid].disks = filled.disks,
                                    !.host_obj[sid].net_adapters = ifs.net_adapters,
                                    !.log = ifs.log]
             IN  ClassifyLoop(AdapterIps(node.interfaces, ifs.net_adapters), sid, st1)

RECURSIVE HostsLoop(_, _)
HostsLoop(listing, st) ==
    IF Len(listing) = 0 \/ st.err # NoErr THEN st
    ELSE HostsLoop(Tail(listing), LoadHost(st, Head(listing)))

LoadHosts ==
    LET res == HostsLoop(storage.hosts,
                         [host_obj |-> host_obj, hosts |-> hosts, ip2host |-> ip2host,
                          log |-> log, err |-> NoErr])
    IN  /\ Control("hosts", res.err)
        /\ host_obj' = res.host_obj
        /\ hosts' = res.hosts
        /\ ip2host' = res.ip2host
        /\ log' = res.log
        /\ UNCHANGED << settings, cluster_net, public_net, is_luminous, crush, perf_data,
                        osd_perf_dump, osd_historic_ops_paths, osd_historicjs_ops_paths,
                        has_performance_data, overall_status, pg, osd_obj, osds,
                        osd_map, pools, mons, report_collected_at >>

(***************************************************************************)
(* Phase 7: PG distribution (load_PG_distribution, lines 582-621).         *)
(*   storage.pg_dump     : None, or the pg_stats records [pgid, acting],   *)
(*                         a pgid being <<pool id, pg number>>             *)
(*   storage.osd_lspools : pool id -> pool name                            *)
(*   storage.osd_dirs    : the numeric entries of the osd directory        *)
(*   storage.osd_pgs     : osd id -> PG listing, for the OSDs that have one*)
(***************************************************************************)
EmptyPg == [osd_pool_pg_2d |-> EmptyDict, sum_per_pool |-> EmptyDict,
            sum_per_osd |-> EmptyDict]

\* variant: the per-pool total is not incremented
CreditNoPoolTotal(c, osd_num, pool_name) ==
    [osd_pool_pg_2d |->
        Put(c.osd_pool_pg_2d, osd_num,
            Put(IF osd_num \in DOMAIN c.osd_pool_pg_2d THEN c.osd_pool_pg_2d[osd_num]
                ELSE EmptyDict,
                pool_name,
                Count(IF osd_num \in DOMAIN c.osd_pool_pg_2d THEN c.osd_pool_pg_2d[osd_num]
                      ELSE EmptyDict, pool_name) + 1)),
     sum_per_pool |-> c.sum_per_pool,
     sum_per_osd |-> Put(c.sum_per_osd, osd_num, Count(c.sum_per_osd, osd_num) + 1)]

\* lines 604-606 and 619-621: the three increments
Credit(c, osd_num, pool_name) ==
    [osd_pool_pg_2d |->
        Put(c.osd_pool_pg_2d, osd_num,
            Put(IF osd_num \in DOMAIN c.osd_pool_pg_2d THEN c.osd_pool_pg_2d[osd_num]
                ELSE EmptyDict,
                pool_name,
                Count(IF osd_num \in DOMAIN c.osd_pool_pg_2d THEN c.osd_pool_pg_2d[osd_num]
                      ELSE EmptyDict, pool_name) + 1)),
     sum_per_pool |-> Put(c.sum_per_pool, pool_name, Count(c.sum_per_pool, pool_name) + 1),
     sum_per_osd |-> Put(c.sum_per_osd, osd_num, Count(c.sum_per_osd, osd_num) + 1)]

\* line 600, 'pgs' in node: node is the NAME of the directory entry, a string
\* of digits (line 598), so the substring test never succeeds
PgsInNode(node) == FALSE

\* lines 597-613
RECURSIVE PgFallbackLoop(_, _)
PgFallbackLoop(dirs, acc) ==
    IF Len(dirs) = 0 THEN acc
    ELSE IF PgsInNode(Head(dirs))
         THEN [acc EXCEPT !.err = "AttributeError"]       \* line 601, node.pgs
         ELSE IF ~acc.pg_missing_reported
              THEN PgFallbackLoop(Tail(dirs),
                     [acc EXCEPT !.log = Append(@, "pg_missing"),
                                 !.pg_missing_reported = TRUE])
              ELSE PgFallbackLoop(Tail(dirs), acc)

\* lines 617-621
RECURSIVE ActingLoop(_, _, _)
ActingLoop(acting, pool, acc) ==
    IF Len(acting) = 0 \/ acc.err # NoErr THEN acc
    ELSE IF pool \notin DOMAIN storage.osd_lspools THEN [acc EXCEPT !.err = "KeyError"]
         ELSE ActingLoop(Tail(acting), pool,
                [acc EXCEPT !.pg = Credit(@, Head(acting), storage.osd_lspools[pool])])

\* lines 615-621
RECURSIVE PgDumpLoop(_, _)
PgDumpLoop(stats, acc) ==
    IF Len(stats) = 0 \/ acc.err # NoErr THEN acc
    ELSE PgDumpLoop(Tail(stats), ActingLoop(Head(stats).acting, Head(stats).pgid[1], acc))

LoadPGDistribution ==
    LET start == [pg |-> EmptyPg, log |-> log, pg_missing_reported |-> FALSE, err |-> NoErr]
        res == IF IsNone(storage.pg_dump) THEN PgFallbackLoop(storage.osd_dirs, start)
               ELSE PgDumpLoop(Val(storage.pg_dump), start)
    IN  /\ Control("pg_distribution", res.err)
        /\ pg' = res.pg
        /\ log' = res.log
        /\ UNCHANGED << settings, cluster_net, public_net, is_luminous, crush, perf_data,
                        osd_perf_dump, osd_historic_ops_paths, osd_historicjs_ops_paths,
                        has_performance_data, overall_status, host_obj, hosts, ip2host,
                        osd_obj, osds, osd_map, pools, mons, report_collected_at >>

(***************************************************************************)
(* Phase 8: OSDs (load_osds, lines 623-747).                               *)
(*   storage.osd_tree     : osd id -> reweight                             *)
(*   storage.osd_versions : osd id -> version                              *)
(*   storage.osd_perf     : osd id -> scalar latencies (osd_perf_infos)    *)
(*   storage.osd_df       : osd id -> [kb_used, kb_avail]                  *)
(*   storage.osd_dump     : the osds records [osd, up, cluster_addr,       *)
(*                          public_addr], an address being <<ip, port>>    *)
(*   storage.osd_node     : osd id -> [devs_cfg, config, cmdline, procinfo]*)
(*                          of the osd/<id> directory                      *)
(* A perf_dump snapshot maps each filestore field to [avgcount, sum].      *)
(* The floating-point samples are kept exact: the counters of the model    *)
(* are far below 2^24, where float32 holds every integer.                  *)
(***************************************************************************)
NewOSD ==
    [id |-> None, reweight |-> None, status |-> None, host |-> None,
     cluster_ip |-> None, public_ip |-> None, pg_count |-> None, config |-> None,
     journal_dev |-> None, journal_partition |-> None, data_dev |-> None,
     data_partition |-> None, db_dev |-> None, db_partition |-> None,
     wal_dev |-> None, wal_partition |-> None, version |-> None,
     osd_perf |-> EmptyDict, historic_ops_storage_path |-> None,
     historicjs_ops_storage_path |-> None,
     used_space |-> None, free_space |-> None, free_perc |-> None,
     procinfo |-> None, cmdline |-> None, storage_type |-> None]

\* variant: the + 0.5 left out
FreePercTruncated(free_space, used_space) == (free_space * 100) \div (free_space + used_space)

\* line 707: int((free * 100.0) / (free + used) + 0.5), for free + used > 0;
\* int() truncates a non-negative value, so this is round half up
FreePerc(free_space, used_space) ==
    (2 * free_space * 100 + (free_space + used_space)) \div (2 * (free_space + used_space))

\* IEEE division of two deltas, line 718 under numpy.errstate(ignore)
Finite(n, d) == [kind |-> "finite", num |-> n, den |-> d]
PosInf == [kind |-> "inf", num |-> 1, den |-> 0]
NegInf == [kind |-> "inf", num |-> -1, den |-> 0]
NaN == [kind |-> "nan", num |-> 0, den |-> 0]

FloatDiv(dv, dc) ==
    IF dc # 0 THEN Finite(dv, dc)
    ELSE IF dv > 0 THEN PosInf
    ELSE IF dv < 0 THEN NegInf
    ELSE NaN

\* lines 720-721
Sentinel(x) == IF x = PosInf \/ x = NaN THEN Finite(NO_VALUE, 1) ELSE x

\* lines 713-722
AvgVals(dump, field) ==
    [i \in 1..(IF Len(dump) = 0 THEN 0 ELSE Len(dump) - 1) |->
        Sentinel(FloatDiv(dump[i + 1][field].sum - dump[i][field].sum,
                          dump[i + 1][field].avgcount - dump[i][field].avgcount))]

\* lines 724-727
Deltas(dump, field, key) ==
    [i \in 1..(IF Len(dump) = 0 THEN 0 ELSE Len(dump) - 1) |->
        dump[i + 1][field][key] - dump[i][field][key]]

LatencyFields == {"apply_latency", "commitcycle_latency", "journal_latency"}

\* lines 710-727
PerfSeries(dump) ==
    [f \in LatencyFields \cup {"journal_ops", "journal_bytes"} |->
        IF f \in LatencyFields THEN AvgVals(dump, f)
        ELSE IF f = "journal_ops" THEN Deltas(dump, "journal_wr_bytes", "avgcount")
        ELSE Deltas(dump, "journal_wr_bytes", "sum")]

\* lines 672-745: what is loaded for an OSD that is up; o is the OSD so far
LoadUpOsd(o) ==
    LET id == Val(o.id)
        node == storage.osd_node[id]
        cfg == node.devs_cfg
        o1 == [o EXCEPT !.storage_type = Some(cfg.type)]
        o2 == IF cfg.type = "filestore"
              THEN [o1 EXCEPT !.data_dev = Some(cfg.r_data), !.data_partition = Some(cfg.data),
                              !.journal_dev = Some(cfg.r_journal),
                              !.journal_partition = Some(cfg.journal)]
              ELSE [o1 EXCEPT !.data_dev = Some(cfg.r_data), !.data_partition = Some(cfg.data),
                              !.db_dev = Some(cfg.r_db), !.db_partition = Some(cfg.db),
                              !.wal_dev = Some(cfg.r_wal), !.wal_partition = Some(cfg.wal)]
        df == storage.osd_df[id]
        used == df.kb_used * 1024
        free == df.kb_avail * 1024
        o3 == [o2 EXCEPT !.used_space = Some(used), !.free_space = Some(free)]
        o4 == [o3 EXCEPT !.free_perc = Some(FreePerc(free, used))]
        o5 == IF has_performance_data /\ id \in DOMAIN Val(osd_perf_dump)
              THEN [o4 EXCEPT !.osd_perf = PerfSeries(Val(osd_perf_dump)[id])]
              ELSE o4
        o6 == [o5 EXCEPT !.osd_perf = Update(@, storage.osd_perf[id])]
        o7 == IF IsNone(osd_historic_ops_paths) THEN o6
              ELSE [o6 EXCEPT
                      !.historic_ops_storage_path =
                          IF id \in DOMAIN Val(osd_historic_ops_paths)
                          THEN Some(Val(osd_historic_ops_paths)[id]) ELSE None,
                      !.historicjs_ops_storage_path =
                          IF id \in DOMAIN Val(osd_historicjs_ops_paths)
                          THEN Some(Val(osd_historicjs_ops_paths)[id]) ELSE None]
        o8 == IF has_performance_data THEN o7 ELSE o4
        o9 == [o8 EXCEPT !.config = node.config]
        o10 == [o9 EXCEPT !.procinfo = node.procinfo]
    IN  IF id \notin DOMAIN storage.osd_node THEN [osd |-> o, err |-> "KeyError"]
        ELSE IF cfg.type \notin {"filestore", "bluestore"}
        THEN [osd |-> o1, err |-> "AssertionError"]
        ELSE IF id \notin DOMAIN storage.osd_df THEN [osd |-> o2, err |-> "KeyError"]
        ELSE IF free + used = 0 THEN [osd |-> o3, err |-> "ZeroDivisionError"]
        ELSE IF has_performance_data /\ id \notin DOMAIN storage.osd_perf
        THEN [osd |-> o5, err |-> "KeyError"]
        \* line 738: get_raw returns bytes, and bytes.split(str) raises TypeError;
        \* only the KeyError of an absent cmdline is caught
        ELSE IF ~IsNone(node.cmdline) THEN [osd |-> o9, err |-> "TypeError"]
        ELSE [osd |-> o10, err |-> NoErr]

\* lines 664-668: the owning host of an OSD, None when the lookup raises KeyError
\* variant: an unknown cluster IP falls back to some host instead of raising
HostOfOsdOrFirst(ip) ==
    IF ip \in DOMAIN ip2host THEN Some(ip2host[ip])
    ELSE IF DOMAIN ip2host = {} THEN None
    ELSE Some(ip2host[CHOOSE k \in DOMAIN ip2host : TRUE])

HostOfOsd(ip) == IF ip \in DOMAIN ip2host THEN Some(ip2host[ip]) ELSE None

\* lines 672-673: the OSDs whose per-OSD loading is skipped
\* variant: down OSDs are loaded like up ones
SkipsNoOsd(status) == FALSE

SkipsLoading(status) == status = "down"

\* lines 651-670 then 672-745: one entry of the cluster dump; ref is the new object
LoadOsd(st, osd_data, ref) ==
    LET id == osd_data.osd
        o1 == [NewOSD EXCEPT !.cluster_ip = Some(osd_data.cluster_addr[1]),
                             !.public_ip = Some(osd_data.public_addr[1]),
                             !.id = Some(id)]
        o2 == [o1 EXCEPT !.reweight = Some(storage.osd_tree[id]),
                         !.status = Some(IF osd_data.up THEN "up" ELSE "down"),
                         !.version = IF id \in DOMAIN storage.osd_versions
                                     THEN Some(storage.osd_versions[id]) ELSE None,
                         !.pg_count = Some(Count(pg.sum_per_osd, id))]
        ip == osd_data.cluster_addr[1]
        host == HostOfOsd(ip)
        o3 == [o2 EXCEPT !.host = host]
        \* lines 652-654: the map key is osd.id BEFORE line 658 assigns it
        st0 == [st EXCEPT !.osds = Append(@, ref), !.osd_map = Put(@, NewOSD.id, ref)]
        up == LoadUpOsd(o3)
    IN  IF id \notin DOMAIN storage.osd_tree
        THEN [st0 EXCEPT !.osd_obj = Put(@, ref, o1), !.err = "KeyError"]
        ELSE IF IsNone(host)
        THEN [st0 EXCEPT !.osd_obj = Put(@, ref, o2), !.err = "KeyError",
                         !.log = Append(@, "no_host_for_osd")]
        ELSE LET st1 == [st0 EXCEPT !.host_obj[Val(host)].osd_ids = @ \cup {id}]
             IN  IF SkipsLoading(Val(o3.status)) THEN [st1 EXCEPT !.osd_obj = Put(@, ref, o3)]
                 ELSE [st1 EXCEPT !.osd_obj = Put(@, ref, up.osd), !.err = up.err]

RECURSIVE OsdsLoop(_, _, _)
OsdsLoop(dump, i, st) ==
    IF i > Len(dump) \/ st.err # NoErr THEN st
    ELSE OsdsLoop(dump, i + 1, LoadOsd(st, dump[i], i))

\* line 747: list.sort(key=id), a stable sort
RECURSIVE InsertSorted(_, _, _)
InsertSorted(sorted, ref, objs) ==
    IF Len(sorted) = 0 THEN << ref >>
    ELSE IF Val(objs[sorted[Len(sorted)]].id) <= Val(objs[ref].id)
         THEN Append(sorted, ref)
         ELSE Append(InsertSorted(SubSeq(sorted, 1, Len(sorted) - 1), ref, objs),
                     sorted[Len(sorted)])

RECURSIVE SortById(_, _)
SortById(lst, objs) ==
    IF Len(lst) = 0 THEN << >>
    ELSE InsertSorted(SortById(SubSeq(lst, 1, Len(lst) - 1), objs), lst[Len(lst)], objs)

LoadOsds ==
    LET res == OsdsLoop(storage.osd_dump, 1,
                        [osd_obj |-> osd_obj, osds |-> osds, osd_map |-> osd_map,
                         host_obj |-> host_obj, log |-> log, err |-> NoErr])
    IN  /\ Control("osds", res.err)
        /\ osd_obj' = res.osd_obj
        /\ osds' = IF res.err = NoErr THEN SortById(res.osds, res.osd_obj) ELSE res.osds
        /\ osd_map' = res.osd_map
        /\ host_obj' = res.host_obj
        /\ log' = res.log
        /\ UNCHANGED << settings, cluster_net, public_net, is_luminous, crush, perf_data,
                        osd_perf_dump, osd_historic_ops_paths, osd_historicjs_ops_paths,
                        has_performance_data, overall_status, hosts, ip2host, pg,
                        pools, mons, report_collected_at >>

(***************************************************************************)
(* Phase 9: pools (load_pools, lines 749-773).                             *)
(*   storage.pool_dump : the pools records of the cluster dump (dicts)     *)
(*   storage.rados_df  : the usage records (dicts); 'categories', when     *)
(*                       present, is a sequence of dicts                   *)
(* A Pool is the dict of its attributes (its __dict__).                    *)
(***************************************************************************)
\* Pool.__init__, lines 75-85, called at lines 753-762
NewPool(info, rule_key) ==
    [id |-> info["pool"], name |-> info["pool_name"], size |-> info["size"],
     min_size |-> info["min_size"], pg |-> info["pg_num"],
     pgp |-> info["pg_placement_num"], crush_rule |-> info[rule_key], extra |-> info]

\* lines 752-764
RECURSIVE PoolDumpLoop(_, _)
PoolDumpLoop(dump, acc) ==
    IF Len(dump) = 0 \/ acc.err # NoErr THEN acc
    ELSE LET info == Head(dump)
             rule_key == IF is_luminous THEN "crush_rule" ELSE "crush_ruleset"
         IN  IF rule_key \notin DOMAIN info THEN [acc EXCEPT !.err = "KeyError"]
             ELSE PoolDumpLoop(Tail(dump),
                    [acc EXCEPT !.pools = Put(@, info["pool"], NewPool(info, rule_key))])

\* lines 771-772: the fields a category contributes
\* variant: the del cat['name'] left out
CategoryFieldsKeepName(cat) == cat

CategoryFields(cat) == Remove(cat, "name")

\* lines 766-773
RECURSIVE RadosDfLoop(_, _)
RadosDfLoop(parts, acc) ==
    IF Len(parts) = 0 \/ acc.err # NoErr THEN acc
    ELSE LET pool_part == Head(parts)
             key == pool_part["id"]
         IN  IF "categories" \notin DOMAIN pool_part
             THEN IF key \notin DOMAIN acc.pools THEN [acc EXCEPT !.err = "KeyError"]
                  ELSE RadosDfLoop(Tail(parts),
                         [acc EXCEPT !.pools[key] = Update(@, pool_part)])
             ELSE IF Len(pool_part["categories"]) # 1
                  THEN [acc EXCEPT !.err = "AssertionError"]
             ELSE IF "name" \notin DOMAIN pool_part["categories"][1]
                  THEN [acc EXCEPT !.err = "KeyError"]
             ELSE IF key \notin DOMAIN acc.pools THEN [acc EXCEPT !.err = "KeyError"]
             ELSE RadosDfLoop(Tail(parts),
                    [acc EXCEPT !.pools[key] =
                        Update(@, CategoryFields(pool_part["categories"][1]))])

LoadPools ==
    LET dumped == PoolDumpLoop(storage.pool_dump, [pools |-> EmptyDict, err |-> NoErr])
        res == RadosDfLoop(storage.rados_df, dumped)
    IN  /\ Control("pools", res.err)
        /\ pools' = res.pools
        /\ UNCHANGED << settings, cluster_net, public_net, is_luminous, crush, perf_data,
                        osd_perf_dump, osd_historic_ops_paths, osd_historicjs_ops_paths,
                        has_performance_data, overall_status, host_obj, hosts, ip2host,
                        log, pg, osd_obj, osds, osd_map, mons, report_collected_at >>

(***************************************************************************)
(* Phase 10: monitors (load_monitors, lines 775-810).                      *)
(*   storage.monmap_mons     : status['monmap']['mons'] (luminous)         *)
(*   storage.health_services : status['health']['health']                  *)
(*                             ['health_services'], each with its 'mons'   *)
(* A monitor record of the bundle is [name, health, kb_avail,              *)
(* avail_percent].                                                         *)
(***************************************************************************)
\* variant: the name comparison left out
HostsNamedAnything(name, st) == {hosts[n] : n \in DOMAIN hosts}

\* lines 794-797: the hosts of self.hosts.values() whose name is mon.host
HostsNamed(name, st) == {sid \in {hosts[n] : n \in DOMAIN hosts} : st.host_obj[sid].name = name}

\* lines 785-810
NewMonitor(srv) ==
    [name |-> srv.name, host |-> srv.name,
     health |-> IF is_luminous THEN None ELSE Some(srv.health),
     kb_avail |-> IF is_luminous THEN None ELSE Some(srv.kb_avail),
     avail_percent |-> IF is_luminous THEN None ELSE Some(srv.avail_percent)]

RECURSIVE MonsLoop(_, _)
MonsLoop(srvs, st) ==
    IF Len(srvs) = 0 \/ st.err # NoErr THEN st
    ELSE LET mon == NewMonitor(Head(srvs))
             found == HostsNamed(mon.host, st)
         IN  IF found = {}
             THEN [st EXCEPT !.err = "ValueError", !.log = Append(@, "no_host_for_monitor")]
             ELSE LET sid == CHOOSE x \in found : TRUE
                  IN  MonsLoop(Tail(srvs),
                        [st EXCEPT !.host_obj[sid].mon_name = Some(mon.name),
                                   !.mons = Append(@, mon)])

LoadMonitors ==
    LET start == [host_obj |-> host_obj, mons |-> mons, log |-> log, err |-> NoErr]
        res == IF is_luminous THEN MonsLoop(storage.monmap_mons, start)
               ELSE IF Len(storage.health_services) # 1
                    THEN [start EXCEPT !.err = "AssertionError"]
               ELSE MonsLoop(storage.health_services[1], start)
    IN  /\ Control("monitors", res.err)
        /\ host_obj' = res.host_obj
        /\ mons' = res.mons
        /\ log' = res.log
        /\ UNCHANGED << settings, cluster_net, public_net, is_luminous, crush, perf_data,
                        osd_perf_dump, osd_historic_ops_paths, osd_historicjs_ops_paths,
                        has_performance_data, overall_status, hosts, ip2host, pg,
                        osd_obj, osds, osd_map, pools, report_collected_at >>

(***************************************************************************)
(* Phase 11: collection timestamp (load, lines 357-359).                   *)
(* storage.collected_at is the artifact, stripped and split at newlines;   *)
(* the unpacking at line 358 has three targets.                            *)
(***************************************************************************)
\* variant: the unpacking has the two named targets only
UnpackTargetsTwo == Len(<< "report_collected_at_local", "report_collected_at_gmt" >>)

\* line 358: local, gmt, _ = coll_time.split("\n")
UnpackTargets == 3

RecordCollectedAt ==
    LET fields == storage.collected_at
        err == IF Len(fields) = UnpackTargets THEN NoErr ELSE "ValueError"
    IN  /\ Control("collected_at", err)
        /\ report_collected_at' =
              IF err = NoErr THEN [local |-> Some(fields[1]), gmt |-> Some(fields[2])]
              ELSE report_collected_at
        /\ log' = IF err = NoErr THEN Append(log, "cluster_loaded") ELSE log
        /\ UNCHANGED << settings, cluster_net, public_net, is_luminous, crush, perf_data,
                        osd_perf_dump, osd_historic_ops_paths, osd_historicjs_ops_paths,
                        has_performance_data, overall_status, host_obj, hosts, ip2host,
                        pg, osd_obj, osds, osd_map, pools, mons >>

(***************************************************************************)
(* The bundles.  DefaultStorage is a well-formed bundle of three hosts,    *)
(* two OSDs, one pool and one monitor without performance data; the        *)
(* initial states of each specification vary some of its artifacts.        *)
(***************************************************************************)
SeqsUpTo(S, n) == UNION {[1..k -> S] : k \in 0..n}
SeqsFrom(S, lo, hi) == UNION {[1..k -> S] : k \in lo..hi}

HostA == << <<10, 1>>, "a" >>
HostB == << <<10, 2>>, "b" >>
HostC == << <<10, 3>>, "c" >>

HostNode(n) ==
    [lsblk |-> {"sda"},
     interfaces |-> << "lo", "eth0", "eth1" >>,
     ipa4 |-> << <<"lo", <<127, 1>> >>, <<"eth0", <<10, n>> >>, <<"eth1", <<192, n>> >> >>]

MonRecord(name) == [name |-> name, health |-> "HEALTH_OK", kb_avail |-> 100,
                    avail_percent |-> 50]

DevsCfg(type) == [type |-> type, r_data |-> "sdb", data |-> "sdb1",
                  r_journal |-> "sdc", journal |-> "sdc1",
                  r_db |-> "sdd", db |-> "sdd1", r_wal |-> "sde", wal |-> "sde1"]

OsdNode(type, cmdline) ==
    [devs_cfg |-> DevsCfg(type), config |-> Some("osd_config"), cmdline |-> cmdline,
     procinfo |-> Some("procinfo")]

OsdEntry(id, up, ip) == [osd |-> id, up |-> up, cluster_addr |-> <<ip, 6800>>,
                         public_addr |-> << <<192, ip[2]>>, 6801 >>]

PoolInfo(id, name) == [pool |-> id, pool_name |-> name, size |-> 3, min_size |-> 2,
                       pg_num |-> 8, pg_placement_num |-> 4, crush_rule |-> 0,
                       crush_ruleset |-> 0]

Snapshot(c) == [f \in LatencyFields \cup {"journal_wr_bytes"} |-> c]

Counters == [avgcount : 0..MaxCounter, sum : 0..MaxCounter]

\* perf_monitoring/<host>: a window of 10 s sampled 3 times
PerfDir(osd_ids, dump) ==
    [collected_at |-> Some(<< 100, 0, 105, 0, 110 >>),
     csv |-> [k \in ({"net-io"} \X {"eth0"} \X SeqToSet(NetMetrics))
                    \cup ({"block-io"} \X {"sda"} \X DiskCounters) |-> << 20, 30 >>],
     perf_dump |-> [o \in osd_ids |-> dump],
     historic |-> osd_ids,
     historic_js |-> osd_ids]

DefaultDump == << Snapshot([avgcount |-> 0, sum |-> 0]), Snapshot([avgcount |-> 2, sum |-> 1]) >>

DefaultStorage ==
    [default_config |-> [k \in {"cluster_network", "public_network"} |->
                            IF k = "cluster_network" THEN 10 ELSE 192],
     mon_release |-> Some("luminous"),
     crushmap |-> "crushmap",
     perf_monitoring |-> None,
     overall_status |-> "HEALTH_OK",
     hosts |-> << HostA, HostB, HostC >>,
     host_node |-> [h \in {HostA, HostB, HostC} |-> HostNode(h[1][2])],
     pg_dump |-> Some(<< [pgid |-> <<1, 0>>, acting |-> <<0, 1>>],
                         [pgid |-> <<1, 1>>, acting |-> <<1>>] >>),
     osd_lspools |-> [p \in {1} |-> "rbd"],
     osd_dirs |-> << 0, 1 >>,
     osd_pgs |-> [o \in {0, 1} |-> << <<1, 0>> >>],
     osd_tree |-> [o \in {0, 1} |-> 1],
     osd_versions |-> [o \in {0} |-> "12.2.0"],
     osd_perf |-> [o \in {0, 1} |-> [apply_latency_s |-> 3, commitcycle_latency_s |-> 4]],
     osd_df |-> [o \in {0, 1} |-> [kb_used |-> 1, kb_avail |-> 2]],
     osd_dump |-> << OsdEntry(0, TRUE, <<10, 1>>), OsdEntry(1, TRUE, <<10, 2>>) >>,
     osd_node |-> [o \in {0, 1} |-> OsdNode(IF o = 0 THEN "filestore" ELSE "bluestore", None)],
     pool_dump |-> << PoolInfo(1, "rbd") >>,
     rados_df |-> << [id |-> 1, name |-> "rbd", num_objects |-> 5] >>,
     monmap_mons |-> << MonRecord("a") >>,
     health_services |-> << << MonRecord("a") >> >>,
     collected_at |-> << "local", "gmt", "tz" >>]

\* the state after CephCluster.__init__, lines 292-328
Constructed ==
    /\ pc = "settings"
    /\ error = NoErr
    /\ ran = << >>
    /\ settings = None
    /\ cluster_net = None
    /\ public_net = None
    /\ is_luminous = FALSE
    /\ crush = None
    /\ perf_data = None
    /\ osd_perf_dump = None
    /\ osd_historic_ops_paths = None
    /\ osd_historicjs_ops_paths = None
    /\ has_performance_data = FALSE
    /\ overall_status = None
    /\ host_obj = EmptyDict
    /\ hosts = EmptyDict
    /\ ip2host = EmptyDict
    /\ log = << >>
    /\ pg = EmptyPg
    /\ osd_obj = EmptyDict
    /\ osds = << >>
    /\ osd_map = EmptyDict
    /\ pools = EmptyDict
    /\ mons = << >>
    /\ report_collected_at = [local |-> None, gmt |-> None]

\* Topology bundles: the OSD entries, the monitors, the performance
\* directories and the per-OSD cmdline artifact vary.
OsdEntries == {OsdEntry(id, up, ip) : id \in 0..1, up \in BOOLEAN,
                                      ip \in {<<10, 1>>, <<10, 2>>, <<10, 9>>}}

OsdDumps == {d \in SeqsFrom(OsdEntries, 1, MaxOsds) :
                \A i, j \in 1..Len(d) : i # j => d[i].osd # d[j].osd}

MonNames == {"a", "zz"}

PerfListings == {None,
                 Some(<< <<HostA, PerfDir({0, 1}, DefaultDump)>> >>),
                 Some(<< <<HostA, PerfDir({0}, DefaultDump)>>,
                         <<HostB, PerfDir({1}, DefaultDump)>>,
                         <<HostC, PerfDir({}, DefaultDump)>> >>)}

TopologyBundles ==
    {[DefaultStorage EXCEPT
        !.osd_dump = d,
        !.monmap_mons = [i \in 1..Len(m) |-> MonRecord(m[i])],
        !.perf_monitoring = p,
        !.osd_node = [o \in {0, 1} |-> OsdNode(IF o = 0 THEN "filestore" ELSE "bluestore", c)]] :
        d \in OsdDumps, m \in SeqsFrom(MonNames, 1, MaxMons), p \in PerfListings,
        c \in {None, Some("cmdline")}}

\* Artifact bundles: the settings keys, the release, the health services,
\* the pool usage records and the collected_at artifact vary.
ConfigKeySets == {{"cluster_network", "public_network"}, {"cluster_network"},
                  {"public_network"}}

Releases == {Some("luminous"), Some("jewel"), None}

Categories == {[name |-> "", num_objects |-> 7],
               [name |-> "cat", num_objects |-> 7, size |-> 9],
               [num_objects |-> 7]}

UsageRecords ==
    {[id |-> i, name |-> "usage", num_objects |-> 5] : i \in {1, 2}}
    \cup {[id |-> i, name |-> "usage", categories |-> c] :
             i \in {1, 2}, c \in SeqsUpTo(Categories, MaxCategories)}

StampFields == << "local", "gmt", "tz", "more", "and_more", "and_more_again" >>

ArtifactBundles ==
    {[DefaultStorage EXCEPT
        !.default_config = [k \in ks |-> IF k = "cluster_network" THEN 10 ELSE 192],
        !.mon_release = r,
        !.health_services = [i \in 1..n |-> << MonRecord("a") >>],
        !.rados_df = << u >>,
        !.collected_at = SubSeq(StampFields, 1, f)] :
        ks \in ConfigKeySets, r \in Releases, n \in 0..2, u \in UsageRecords,
        f \in 1..MaxStamp}

\* Usage bundles: the usage record of OSD 0 varies.
UsageBundles ==
    {[DefaultStorage EXCEPT !.osd_df[0] = [kb_used |-> u, kb_avail |-> a]] :
        u \in 0..MaxKb, a \in 0..MaxKb}

\* Perf-dump bundles: every host has performance data, and the snapshots of
\* OSD 0 vary; the three latency fields carry the series, the series reversed
\* and the series with sum and avgcount exchanged.
Exchanged(c) == [avgcount |-> c.sum, sum |-> c.avgcount]

FieldDump(series) ==
    [i \in 1..Len(series) |->
        [apply_latency |-> series[i],
         commitcycle_latency |-> series[Len(series) + 1 - i],
         journal_latency |-> Exchanged(series[i]),
         journal_wr_bytes |-> series[i]]]

PerfDumpBundles ==
    {[DefaultStorage EXCEPT
        !.perf_monitoring =
            Some(<< <<HostA, PerfDir({0}, FieldDump(s))>>,
                    <<HostB, PerfDir({}, DefaultDump)>>,
                    <<HostC, PerfDir({}, DefaultDump)>> >>)] :
        s \in SeqsUpTo(Counters, MaxSnapshots)}

\* Address bundles: the addresses of eth0 and eth1 of the hosts a and b vary,
\* so that two hosts can carry the same address.
HostNodeAt(c, p) ==
    [HostNode(1) EXCEPT
        !.ipa4 = << <<"lo", <<127, 1>> >>, <<"eth0", <<10, c>> >>, <<"eth1", <<192, p>> >> >>]

AddressBundles ==
    {[DefaultStorage EXCEPT
        !.host_node = [h \in {HostA, HostB, HostC} |->
                          IF h = HostC THEN HostNode(3) ELSE HostNodeAt(c[h], p[h])]] :
        c \in [{HostA, HostB} -> 1..MaxIp], p \in [{HostA, HostB} -> 1..MaxIp]}

\* Load bundles: every host has performance data; the window of host a and
\* the metrics sampled for its adapter eth0 and its disk sda vary.
PerfDirWith(window, net, disk) ==
    [PerfDir({0}, DefaultDump) EXCEPT
        !.collected_at = Some(<< 100, 0, 100 + window >>),
        !.csv = [k \in ({"net-io"} \X {"eth0"} \X net)
                       \cup ({"block-io"} \X {"sda"} \X disk) |-> << 20, 30 >>]]

DiskCounterSets == {DiskCounters, {}} \cup {DiskCounters \ {c} : c \in DiskCounters}

LoadBundles ==
    {[DefaultStorage EXCEPT
        !.perf_monitoring =
            Some(<< <<HostA, PerfDirWith(w, net, disk)>>,
                    <<HostB, PerfDir({1}, DefaultDump)>>,
                    <<HostC, PerfDir({}, DefaultDump)>> >>)] :
        w \in 0..MaxWindow, net \in SUBSET SeqToSet(NetMetrics), disk \in DiskCounterSets}

\* PG bundles: the consolidated PG dump varies (pool 3 is not listed by
\* osd_lspools), and without it the OSD directories and their PG listings.
PgRecords == [pgid : {<<p, 0>> : p \in 1..3}, acting : {<< >>, <<0>>, <<1>>, <<0, 1>>}]

PgListings == {<< <<1, 0>> >>, << <<1, 0>>, <<2, 0>> >>}

PgBundles ==
    {[DefaultStorage EXCEPT
        !.osd_lspools = [p \in {1, 2} |-> IF p = 1 THEN "rbd" ELSE "cephfs"],
        !.pg_dump = Some(s)] : s \in SeqsUpTo(PgRecords, MaxPgs)}
    \cup
    {[DefaultStorage EXCEPT
        !.osd_lspools = [p \in {1, 2} |-> IF p = 1 THEN "rbd" ELSE "cephfs"],
        !.pg_dump = None,
        !.osd_dirs = d,
        !.osd_pgs = l] :
        d \in {<< >>, <<0>>, <<0, 1>>},
        l \in UNION {[S -> PgListings] : S \in SUBSET {0, 1}}}

Init ==
    /\ storage \in TopologyBundles
    /\ Constructed

InitArtifacts ==
    /\ storage \in ArtifactBundles
    /\ Constructed

InitUsage ==
    /\ storage \in UsageBundles
    /\ Constructed

InitPerfDump ==
    /\ storage \in PerfDumpBundles
    /\ Constructed

InitHosts ==
    /\ storage \in AddressBundles \cup LoadBundles
    /\ Constructed

InitPg ==
    /\ storage \in PgBundles
    /\ Constructed

Next ==
    \/ LoadSettings
    \/ DetectLuminous
    \/ LoadCrush
    \/ LoadPerfMonitoring
    \/ LoadCephSettings
    \/ LoadHosts
    \/ LoadPGDistribution
    \/ LoadOsds
    \/ LoadPools
    \/ LoadMonitors
    \/ RecordCollectedAt

Spec == Init /\ [][Next]_vars

SpecArtifacts == InitArtifacts /\ [][Next]_vars

SpecUsage == InitUsage /\ [][Next]_vars

SpecPerfDump == InitPerfDump /\ [][Next]_vars

SpecHosts == InitHosts /\ [][Next]_vars

SpecPg == InitPg /\ [][Next]_vars

(***************************************************************************)
(* Properties.                                                             *)
(***************************************************************************)
Ran(p) == p \in SeqToSet(ran)
FailedIn(p) == pc = "failed" /\ ran[Len(ran)] = p
LoadedHostNames == {host_obj[hosts[n]].name : n \in DOMAIN hosts}

\* the monitor records load_monitors iterates over
ListedMons ==
    IF is_luminous THEN storage.monmap_mons
    ELSE IF Len(storage.health_services) = 1 THEN storage.health_services[1]
    ELSE << >>

UnresolvedMons == {i \in 1..Len(ListedMons) : ListedMons[i].name \notin LoadedHostNames}

\* C1: every monitor of the mons list has a host name that is the name of
\* exactly one Host of the hosts mapping; once load_monitors has run, a listed
\* monitor that matches no loaded Host has made it raise ValueError and abort
\* the load with only the monitors listed before it kept, and without such a
\* monitor every listed monitor is in the list.
C1_MonitorsResolveOrRaise ==
    /\ \A i \in 1..Len(mons) :
          Cardinality({n \in DOMAIN hosts : host_obj[hosts[n]].name = mons[i].host}) = 1
    /\ (Ran("monitors") /\ UnresolvedMons # {}) =>
          /\ FailedIn("monitors")
          /\ error = "ValueError"
          /\ Len(mons) = (CHOOSE i \in UnresolvedMons : \A j \in UnresolvedMons : i <= j) - 1
    /\ (Ran("monitors") /\ UnresolvedMons = {} /\ ~FailedIn("monitors")) =>
          /\ Len(mons) = Len(ListedMons)
          /\ \A i \in 1..Len(mons) : mons[i].name = ListedMons[i].name

C1_Witness ==
    /\ FailedIn("monitors")
    /\ error = "ValueError"
    /\ Len(mons) = 1
    /\ Len(storage.monmap_mons) = 2

OsdRefs == DOMAIN osd_obj

\* the entries of the cluster dump whose cluster IP no host owns
OrphanEntries == {i \in 1..Len(storage.osd_dump) :
                     storage.osd_dump[i].cluster_addr[1] \notin DOMAIN ip2host}

\* C2: every OSD that has a host has the Host registered in the IP-to-Host
\* index under its cluster IP, and that Host's osd_ids holds the OSD's id; once
\* load_osds has run, an entry whose cluster IP is not in the index has made it
\* fail, and if load_osds did not fail every entry of the dump, up or down, has
\* an OSD with a host.
C2_OsdHostResolvedOrRaise ==
    /\ \A r \in OsdRefs :
          ~IsNone(osd_obj[r].host) =>
              /\ Val(osd_obj[r].cluster_ip) \in DOMAIN ip2host
              /\ Val(osd_obj[r].host) = ip2host[Val(osd_obj[r].cluster_ip)]
              /\ Val(osd_obj[r].id) \in host_obj[Val(osd_obj[r].host)].osd_ids
    /\ (Ran("osds") /\ OrphanEntries # {}) =>
          /\ FailedIn("osds")
          /\ ((CHOOSE i \in OrphanEntries : \A j \in OrphanEntries : i <= j) \in OsdRefs
                => error = "KeyError")
    /\ (Ran("osds") /\ ~FailedIn("osds")) =>
          /\ OsdRefs = 1..Len(storage.osd_dump)
          /\ \A r \in OsdRefs :
                /\ osd_obj[r].id = Some(storage.osd_dump[r].osd)
                /\ osd_obj[r].cluster_ip = Some(storage.osd_dump[r].cluster_addr[1])
                /\ ~IsNone(osd_obj[r].host)

C2_Witness ==
    /\ pc = "done"
    /\ \E r, q \in OsdRefs :
          /\ osd_obj[r].status = Some("down")
          /\ osd_obj[q].status = Some("up")
          /\ osd_obj[r].host = Some(HostB)
          /\ osd_obj[q].host = Some(HostA)
          /\ host_obj[HostB].osd_ids = {Val(osd_obj[r].id)}

UnsetFields == {"storage_type", "journal_dev", "journal_partition", "data_dev",
                "data_partition", "db_dev", "db_partition", "wal_dev", "wal_partition",
                "used_space", "free_space", "free_perc", "historic_ops_storage_path",
                "historicjs_ops_storage_path", "config", "cmdline", "procinfo"}

\* C3: every OSD whose status is 'down' has its storage-type, device and
\* partition, used and free space, free_perc, historic-ops path, config,
\* cmdline and procinfo fields None and its osd_perf mapping empty.
C3_DownOsdUnset ==
    \A r \in OsdRefs :
        osd_obj[r].status = Some("down") =>
            /\ \A f \in UnsetFields : IsNone(osd_obj[r][f])
            /\ DOMAIN osd_obj[r].osd_perf = {}

\* a down OSD for which the bundle holds every per-OSD artifact
C3_Witness ==
    /\ pc = "done"
    /\ has_performance_data
    /\ \E r \in OsdRefs :
          LET id == Val(osd_obj[r].id)
          IN  /\ osd_obj[r].status = Some("down")
              /\ id \in DOMAIN storage.osd_node
              /\ ~IsNone(storage.osd_node[id].cmdline)
              /\ ~IsNone(storage.osd_node[id].config)
              /\ id \in DOMAIN storage.osd_df
              /\ id \in DOMAIN Val(osd_perf_dump)
              /\ id \in DOMAIN Val(osd_historic_ops_paths)

IsSortedById(lst) ==
    \A i \in 1..(Len(lst) - 1) : Val(osd_obj[lst[i]].id) <= Val(osd_obj[lst[i + 1]].id)

\* C10: after a successful load osd_map has one entry for every OSD of the
\* cluster dump, keyed by that OSD's id, the entry is the OSD object of that id
\* in the osds list, and the list is sorted by ascending id.
C10_OsdMapKeyedById ==
    pc = "done" =>
        /\ DOMAIN osd_map = {Some(storage.osd_dump[i].osd) : i \in 1..Len(storage.osd_dump)}
        /\ \A k \in DOMAIN osd_map :
              /\ osd_obj[osd_map[k]].id = k
              /\ osd_map[k] \in SeqToSet(osds)
        /\ IsSortedById(osds)

\* the OSDs that are up and have got their usage figures
UpWithUsage == {r \in OsdRefs : /\ osd_obj[r].status = Some("up")
                                /\ ~IsNone(osd_obj[r].used_space)
                                /\ ~IsNone(osd_obj[r].free_space)}

Abs(x) == IF x < 0 THEN -x ELSE x

\* C4: for every up OSD with non-negative used and free space and
\* used + free > 0, free and used are kb_avail and kb_used of its usage record
\* times 1024, and once the load is past load_osds free_perc is an integer of
\* 0..100 at most one half away from 100 * free / (free + used).
C4_FreePercRounded ==
    \A r \in UpWithUsage :
        LET free == Val(osd_obj[r].free_space)
            used == Val(osd_obj[r].used_space)
            df == storage.osd_df[Val(osd_obj[r].id)]
        IN  /\ free = df.kb_avail * 1024
            /\ used = df.kb_used * 1024
            /\ (free >= 0 /\ used >= 0 /\ free + used > 0 /\ ~FailedIn("osds")) =>
                  /\ ~IsNone(osd_obj[r].free_perc)
                  /\ Val(osd_obj[r].free_perc) \in 0..100
                  /\ 2 * Abs(Val(osd_obj[r].free_perc) * (free + used) - 100 * free)
                        <= free + used

\* 12.5 per cent free is rounded up to 13
C4_Witness ==
    /\ pc = "done"
    /\ \E r \in UpWithUsage :
          /\ Val(osd_obj[r].free_space) = 1024
          /\ Val(osd_obj[r].used_space) = 7 * 1024
          /\ osd_obj[r].free_perc = Some(13)

\* the up OSDs that got series out of their perf_dump snapshots
WithSeries == {r \in OsdRefs : /\ osd_obj[r].status = Some("up")
                               /\ has_performance_data
                               /\ Val(osd_obj[r].id) \in DOMAIN Val(osd_perf_dump)
                               /\ LatencyFields \subseteq DOMAIN osd_obj[r].osd_perf}

\* C5: for every up OSD with N perf_dump snapshots and each latency field the
\* series has N-1 samples, sample i is the sum delta over the count delta when
\* the count delta is not zero and the sentinel -1 when it is zero, whatever
\* the sum delta, so no sample is NaN or infinite.
C5_LatencySamples ==
    \A r \in WithSeries : \A f \in LatencyFields :
        LET dump == Val(osd_perf_dump)[Val(osd_obj[r].id)]
            series == osd_obj[r].osd_perf[f]
        IN  /\ Len(series) = (IF Len(dump) = 0 THEN 0 ELSE Len(dump) - 1)
            /\ \A i \in 1..Len(series) :
                  LET dv == dump[i + 1][f].sum - dump[i][f].sum
                      dc == dump[i + 1][f].avgcount - dump[i][f].avgcount
                  IN  /\ series[i].kind = "finite"
                      /\ dc # 0 => (series[i].num = dv /\ series[i].den = dc)
                      /\ dc = 0 => (series[i].num = NO_VALUE /\ series[i].den = 1)

\* the pool built from the pool dump for the id of the usage record, lines 752-764
UsageRecord == storage.rados_df[1]
DumpedPool ==
    LET info == CHOOSE x \in SeqToSet(storage.pool_dump) : x["pool"] = UsageRecord["id"]
    IN  NewPool(info, IF is_luminous THEN "crush_rule" ELSE "crush_ruleset")
UsageMatchesPool == \E x \in SeqToSet(storage.pool_dump) : x["pool"] = UsageRecord["id"]

\* C6: once load_pools has run, a usage record without 'categories' has been
\* merged field by field into the pool of its id; a usage record with exactly
\* one category has merged that category's fields except 'name', which the
\* pool keeps; a usage record with two or more categories has made load_pools
\* raise and the load abort.  (A usage record for an unknown pool id, or a
\* single category without a 'name' key, raises KeyError.)
C6_PoolUsageMerge ==
    Ran("pools") =>
        /\ ("categories" \notin DOMAIN UsageRecord /\ UsageMatchesPool) =>
              /\ ~FailedIn("pools")
              /\ \A k \in DOMAIN UsageRecord : pools[UsageRecord["id"]][k] = UsageRecord[k]
              /\ \A k \in DOMAIN DumpedPool \ DOMAIN UsageRecord :
                    pools[UsageRecord["id"]][k] = DumpedPool[k]
        /\ ("categories" \in DOMAIN UsageRecord /\ Len(UsageRecord["categories"]) = 1
              /\ "name" \in DOMAIN UsageRecord["categories"][1] /\ UsageMatchesPool) =>
              LET cat == UsageRecord["categories"][1]
                  pool == pools[UsageRecord["id"]]
              IN  /\ ~FailedIn("pools")
                  /\ \A k \in DOMAIN cat \ {"name"} : pool[k] = cat[k]
                  /\ \A k \in DOMAIN DumpedPool \ (DOMAIN cat \ {"name"}) :
                        pool[k] = DumpedPool[k]
                  /\ DOMAIN pool = DOMAIN DumpedPool \cup (DOMAIN cat \ {"name"})
        /\ ("categories" \in DOMAIN UsageRecord /\ Len(UsageRecord["categories"]) >= 2) =>
              /\ FailedIn("pools")
              /\ error = "AssertionError"

\* one category named "cat": its size and num_objects are merged, its name is not
C6_Witness ==
    /\ pc = "monitors"
    /\ "categories" \in DOMAIN UsageRecord
    /\ Len(UsageRecord["categories"]) = 1
    /\ UsageRecord["categories"][1]["name"] = "cat"
    /\ pools[1]["size"] = 9
    /\ pools[1]["num_objects"] = 7
    /\ pools[1]["name"] = "rbd"

HostRefs == DOMAIN host_obj

\* a bundle whose only irregularity can be the missing perf_monitoring entry
WellFormedWithoutPerf ==
    /\ {"cluster_network", "public_network"} \subseteq DOMAIN storage.default_config
    /\ \A i \in 1..Len(storage.osd_dump) :
          LET e == storage.osd_dump[i]
          IN  /\ \E h \in SeqToSet(storage.hosts) :
                    \E j \in 1..Len(storage.host_node[h].ipa4) :
                        storage.host_node[h].ipa4[j][2] = e.cluster_addr[1]
              /\ e.up => IsNone(storage.osd_node[e.osd].cmdline)
              /\ e.up => storage.osd_df[e.osd].kb_used + storage.osd_df[e.osd].kb_avail > 0
    /\ \A i \in 1..Len(storage.monmap_mons) :
          \E h \in SeqToSet(storage.hosts) : h[2] = storage.monmap_mons[i].name
    /\ storage.mon_release = Some("luminous")
    /\ \A i \in 1..Len(storage.rados_df) : "categories" \notin DOMAIN storage.rados_df[i]
    /\ Len(storage.collected_at) = 3

\* C7: when the bundle has no perf_monitoring entry, has_performance_data is
\* False once the performance phase has run, every Host's perf_monitoring is
\* None, every Disk's and NetworkAdapter's load is None, every OSD's
\* historic-ops path is None and its osd_perf mapping empty, and the load of an
\* otherwise well-formed bundle does not fail.
C7_NoPerfData ==
    IsNone(storage.perf_monitoring) =>
        /\ ~has_performance_data
        /\ IsNone(perf_data)
        /\ \A h \in HostRefs :
              /\ IsNone(host_obj[h].perf_monitoring)
              /\ \A d \in DOMAIN host_obj[h].disks : IsNone(host_obj[h].disks[d].load)
              /\ \A a \in DOMAIN host_obj[h].net_adapters :
                    IsNone(host_obj[h].net_adapters[a].load)
        /\ \A r \in OsdRefs :
              /\ IsNone(osd_obj[r].historic_ops_storage_path)
              /\ DOMAIN osd_obj[r].osd_perf = {}
        /\ WellFormedWithoutPerf => pc # "failed"

C7_Witness ==
    /\ pc = "done"
    /\ IsNone(storage.perf_monitoring)
    /\ HostRefs = {HostA, HostB, HostC}
    /\ \A h \in HostRefs : DOMAIN host_obj[h].disks # {} /\ DOMAIN host_obj[h].net_adapters # {}
    /\ \E r \in OsdRefs : osd_obj[r].status = Some("up")

\* a bundle of several hosts with collected_at, block-io and net-io data for
\* exactly one of them, over a window longer than 1 second
PerfForOneHostOnly ==
    /\ ~IsNone(storage.perf_monitoring)
    /\ Len(Val(storage.perf_monitoring)) = 1
    /\ Len(storage.hosts) > 1
    /\ Val(storage.perf_monitoring)[1][1] \in SeqToSet(storage.hosts)
    /\ LET dir == Val(storage.perf_monitoring)[1][2]
           ca == EveryOther(Val(dir.collected_at))
       IN  /\ ~IsNone(dir.collected_at)
           /\ ca[Len(ca)] - ca[1] > 1
           /\ \E k \in DOMAIN dir.csv : k[1] = "block-io"
           /\ \E k \in DOMAIN dir.csv : k[1] = "net-io"

\* C8: with performance data for only one of several hosts over a window
\* longer than 1 second, load_hosts does not fail; that host's adapters and
\* disks with samples get loads whose rates are sum(samples) / window and the
\* other hosts keep None loads.
C8_PerfForOneHost ==
    (PerfForOneHostOnly /\ Ran("hosts")) =>
        LET with == Val(storage.perf_monitoring)[1][1]
            dir == Val(storage.perf_monitoring)[1][2]
            ca == EveryOther(Val(dir.collected_at))
            window == ca[Len(ca)] - ca[1]
        IN  /\ ~FailedIn("hosts")
            /\ HostRefs = SeqToSet(storage.hosts)
            /\ \A h \in HostRefs \ {with} :
                  /\ \A d \in DOMAIN host_obj[h].disks : IsNone(host_obj[h].disks[d].load)
                  /\ \A a \in DOMAIN host_obj[h].net_adapters :
                        IsNone(host_obj[h].net_adapters[a].load)
            /\ \A a \in DOMAIN host_obj[with].net_adapters :
                  (\A mt \in SeqToSet(NetMetrics) : <<"net-io", a, mt>> \in DOMAIN dir.csv) =>
                      /\ ~IsNone(host_obj[with].net_adapters[a].load)
                      /\ \A mt \in SeqToSet(NetMetrics) :
                            Val(host_obj[with].net_adapters[a].load)[Avg(mt)] =
                                Some(Quot(SumSeq(dir.csv[<<"net-io", a, mt>>]), window))
            /\ \A n \in storage.host_node[with].lsblk :
                  (\A c \in DiskCounters : <<"block-io", n, c>> \in DOMAIN dir.csv) =>
                      /\ ~IsNone(host_obj[with].disks[DevPath(n)].load)
                      /\ Val(host_obj[with].disks[DevPath(n)].load).read_bytes =
                            Quot(SumSeq(dir.csv[<<"block-io", n, "sectors_read">>]), window)

\* C9: the phases run in the order settings, luminous detection, crush map,
\* performance raw data, health counters, hosts, PG distribution, OSDs, pools,
\* monitors, collection timestamp; a phase starts only when every earlier phase
\* has completed without raising, and after a phase has raised nothing runs.
C9_PhasesInOrder ==
    /\ [](/\ ran = SubSeq(PhaseOrder, 1, Len(ran))
          /\ error = NoErr =>
                pc = (IF Len(ran) = Len(PhaseOrder) THEN "done" ELSE PhaseOrder[Len(ran) + 1])
          /\ error # NoErr => pc = "failed")
    /\ [][error = NoErr /\ ran' = Append(ran, pc)]_vars

\* load_monitors raised: ten phases ran, the timestamp phase did not
C9_Witness ==
    /\ pc = "failed"
    /\ ran = SubSeq(PhaseOrder, 1, 10)
    /\ report_collected_at = [local |-> None, gmt |-> None]

\* the non-loopback addresses the ip dump of a host gives to its adapters
ClaimsOf(sid) ==
    LET node == storage.host_node[sid]
    IN  {node.ipa4[i][2] : i \in {j \in 1..Len(node.ipa4) :
                                    /\ node.ipa4[j][1] \in SeqToSet(node.interfaces)
                                    /\ ~IsLoopback(node.ipa4[j][2])}}

\* the addresses that appear on adapters of two hosts
DuplicateIps ==
    {ip \in UNION {ClaimsOf(h) : h \in SeqToSet(storage.hosts)} :
        \E h1, h2 \in SeqToSet(storage.hosts) :
            h1 # h2 /\ ip \in ClaimsOf(h1) /\ ip \in ClaimsOf(h2)}

\* the first host of the listing that carries the address
FirstClaimant(ip) ==
    storage.hosts[CHOOSE i \in 1..Len(storage.hosts) :
                     /\ ip \in ClaimsOf(storage.hosts[i])
                     /\ \A j \in 1..(i - 1) : ip \notin ClaimsOf(storage.hosts[j])]

\* the adapter slot of a host is backed by an address of that adapter inside
\* the network which the index maps to this very host
SlotBacked(sid, slot, net) ==
    ~IsNone(slot) =>
        \E ip \in SeqToSet(host_obj[sid].net_adapters[Val(slot)].ips) :
            InNet(ip, net) /\ ip2host[ip] = sid

\* C11: when a non-loopback address appears on adapters of two hosts,
\* load_hosts does not raise, the IP-to-Host index maps every address to the
\* host that claimed it first, and a discarded claim sets neither the cluster
\* nor the public adapter of the later host: a slot that is set is backed by
\* an address the index gives to that host.
C11_DuplicateIpDiscarded ==
    (Ran("hosts") /\ DuplicateIps # {}) =>
        /\ ~FailedIn("hosts")
        /\ DOMAIN ip2host = UNION {ClaimsOf(h) : h \in SeqToSet(storage.hosts)}
        /\ \A ip \in DOMAIN ip2host : ip2host[ip] = FirstClaimant(ip)
        /\ \A h \in HostRefs :
              /\ SlotBacked(h, host_obj[h].ceph_cluster_adapter, Val(cluster_net))
              /\ SlotBacked(h, host_obj[h].ceph_public_adapter, Val(public_net))

\* hosts a and b carry the same cluster address and different public ones:
\* a keeps the address, b has no cluster adapter but has its public adapter
C11_Witness ==
    /\ Ran("hosts")
    /\ \E ip \in DuplicateIps :
          /\ InNet(ip, Val(cluster_net))
          /\ ip \in ClaimsOf(HostA) /\ ip \in ClaimsOf(HostB)
          /\ ip2host[ip] = HostA
    /\ host_obj[HostA].ceph_cluster_adapter = Some("eth0")
    /\ IsNone(host_obj[HostB].ceph_cluster_adapter)
    /\ host_obj[HostB].ceph_public_adapter = Some("eth1")
    /\ "duplicate_ip" \in SeqToSet(log)

\* the perf_monitoring directory of a host, for a host that has one
PerfDirOf(h) ==
    LET listing == Val(storage.perf_monitoring)
    IN  listing[CHOOSE i \in 1..Len(listing) : listing[i][1] = h][2]

HasPerfDir(h) ==
    /\ ~IsNone(storage.perf_monitoring)
    /\ \E i \in 1..Len(Val(storage.perf_monitoring)) : Val(storage.perf_monitoring)[i][1] = h

\* the time between the first and the last sample of collected_at.csv
WindowOf(h) ==
    LET ca == EveryOther(Val(PerfDirOf(h).collected_at))
    IN  ca[Len(ca)] - ca[1]

HasWindow(h) ==
    /\ HasPerfDir(h)
    /\ ~IsNone(PerfDirOf(h).collected_at)
    /\ Len(Val(PerfDirOf(h).collected_at)) > 0

\* the net-io metrics the directory holds for an adapter
NetSampled(h, a) == {k[3] : k \in {x \in DOMAIN PerfDirOf(h).csv : x[1] = "net-io" /\ x[2] = a}}

FullNetLoad(load) ==
    /\ DOMAIN load = DOMAIN EmptyNetLoad
    /\ \A k \in DOMAIN load : ~IsNone(load[k])

\* C12: for every network adapter of a host whose performance window is
\* longer than 1 second, the load is None or a NetLoad with all four metrics
\* and all four averages set, and it is None when one of the four metrics is
\* missing for the adapter.
C12_NetLoadAllOrNothing ==
    \A h \in HostRefs :
        (HasWindow(h) /\ WindowOf(h) > 1) =>
            \A a \in DOMAIN host_obj[h].net_adapters :
                LET load == host_obj[h].net_adapters[a].load
                IN  /\ IsNone(load) \/ FullNetLoad(Val(load))
                    /\ ~(SeqToSet(NetMetrics) \subseteq NetSampled(h, a)) => IsNone(load)

\* eth0 of host a lacks one or two of the four metrics over a window longer
\* than 1 second and has no load, while eth0 of host b has all four and a
\* full NetLoad
C12_Witness ==
    /\ Ran("hosts")
    /\ {HostA, HostB} \subseteq HostRefs
    /\ HasWindow(HostA) /\ WindowOf(HostA) > 1
    /\ NetSampled(HostA, "eth0") # {}
    /\ "send_bytes" \in NetSampled(HostA, "eth0")
    /\ ~(SeqToSet(NetMetrics) \subseteq NetSampled(HostA, "eth0"))
    /\ IsNone(host_obj[HostA].net_adapters["eth0"].load)
    /\ HasWindow(HostB) /\ WindowOf(HostB) > 1
    /\ ~IsNone(host_obj[HostB].net_adapters["eth0"].load)
    /\ FullNetLoad(Val(host_obj[HostB].net_adapters["eth0"].load))
    /\ Val(host_obj[HostB].net_adapters["eth0"].load)["send_bytes_avg"] = Some(Quot(50, 10))

\* the block-io counters the directory holds for a device
DiskSampled(h, d) ==
    {k[3] : k \in {x \in DOMAIN PerfDirOf(h).csv : x[1] = "block-io" /\ x[2] = d}}

\* C13: for every host with performance data, the load of a NetworkAdapter and
\* the load of a Disk are None whenever the sampling window is shorter than
\* 1 second or one of the source counters of the device is absent (the four
\* net-io metrics for an adapter, the six block-io counters for a disk), and
\* load_hosts does not raise on such a bundle.
C13_LoadNoneWhenShortOrAbsent ==
    Ran("hosts") =>
        /\ \A h \in HostRefs :
              HasWindow(h) =>
                  /\ \A a \in DOMAIN host_obj[h].net_adapters :
                        (WindowOf(h) < 1 \/ ~(SeqToSet(NetMetrics) \subseteq NetSampled(h, a)))
                            => IsNone(host_obj[h].net_adapters[a].load)
                  /\ \A d \in storage.host_node[h].lsblk :
                        (WindowOf(h) < 1 \/ ~(DiskCounters \subseteq DiskSampled(h, d)))
                            => IsNone(host_obj[h].disks[DevPath(d)].load)
        /\ (\A h \in SeqToSet(storage.hosts) : HasWindow(h)) => ~FailedIn("hosts")

\* over a window longer than 1 second, sda of host a has some but not all of
\* the six counters and eth0 some but not all of the four metrics: both loads
\* are None and the load went on to the OSDs
C13_Witness ==
    /\ Ran("osds")
    /\ HasWindow(HostA) /\ WindowOf(HostA) > 1
    /\ DiskSampled(HostA, "sda") # {}
    /\ ~(DiskCounters \subseteq DiskSampled(HostA, "sda"))
    /\ IsNone(host_obj[HostA].disks[DevPath("sda")].load)
    /\ NetSampled(HostA, "eth0") # {}
    /\ ~(SeqToSet(NetMetrics) \subseteq NetSampled(HostA, "eth0"))
    /\ IsNone(host_obj[HostA].net_adapters["eth0"].load)

\* the PGs of a pool in the PG listing of an OSD directory
ListedFor(o, pool_id) ==
    Cardinality({i \in 1..Len(storage.osd_pgs[o]) : storage.osd_pgs[o][i][1] = pool_id})

\* the numeric OSD directories that hold a PG listing
DirsWithListing == SeqToSet(storage.osd_dirs) \cap DOMAIN storage.osd_pgs

RECURSIVE SumOver(_, _)
SumOver(S, f) ==
    IF S = {} THEN 0
    ELSE LET x == CHOOSE y \in S : TRUE IN f[x] + SumOver(S \ {x}, f)

Pair2d(o, name) ==
    IF o \in DOMAIN pg.osd_pool_pg_2d THEN Count(pg.osd_pool_pg_2d[o], name) ELSE 0

\* C14: without the consolidated PG dump, every PG of the listing of a numeric
\* OSD directory adds one to the (OSD, pool) counter, to the total of the pool
\* and to the total of the OSD, and at most one warning about a missing
\* listing is logged.
C14_PgFallbackCounts ==
    (IsNone(storage.pg_dump) /\ Ran("pg_distribution")) =>
        /\ ~FailedIn("pg_distribution")
        /\ \A o \in DirsWithListing :
              /\ Count(pg.sum_per_osd, o) = Len(storage.osd_pgs[o])
              /\ \A p \in DOMAIN storage.osd_lspools :
                    Pair2d(o, storage.osd_lspools[p]) = ListedFor(o, p)
        /\ \A p \in DOMAIN storage.osd_lspools :
              Count(pg.sum_per_pool, storage.osd_lspools[p]) =
                  SumOver(DirsWithListing, [o \in DirsWithListing |-> ListedFor(o, p)])
        /\ Cardinality({i \in 1..Len(log) : log[i] = "pg_missing"}) <= 1

\* the OSDs and the pool names that occur in one of the three counters
CountedOsds == DOMAIN pg.osd_pool_pg_2d \cup DOMAIN pg.sum_per_osd

CountedPools ==
    DOMAIN pg.sum_per_pool \cup UNION {DOMAIN pg.osd_pool_pg_2d[o] : o \in DOMAIN pg.osd_pool_pg_2d}

\* the summed lengths of the acting sets of all PG records
ActingTotal ==
    LET stats == Val(storage.pg_dump)
    IN  SumOver(1..Len(stats), [i \in 1..Len(stats) |-> Len(stats[i].acting)])

\* C16: after load_PG_distribution, on either path, the total of every OSD is
\* the sum over the pools of its (OSD, pool) counts, the total of every pool
\* is the sum over the OSDs of the (OSD, pool) counts, and the totals of the
\* OSDs add up to the totals of the pools; when the consolidated dump was read
\* to its end, that grand total is the summed lengths of the acting sets.
C16_PgCountersAgree ==
    Ran("pg_distribution") =>
        /\ \A o \in CountedOsds :
              Count(pg.sum_per_osd, o) = SumOver(CountedPools, [n \in CountedPools |-> Pair2d(o, n)])
        /\ \A n \in CountedPools :
              Count(pg.sum_per_pool, n) = SumOver(CountedOsds, [o \in CountedOsds |-> Pair2d(o, n)])
        /\ SumOver(DOMAIN pg.sum_per_osd, pg.sum_per_osd)
               = SumOver(DOMAIN pg.sum_per_pool, pg.sum_per_pool)
        /\ (~IsNone(storage.pg_dump) /\ ~FailedIn("pg_distribution")) =>
               SumOver(DOMAIN pg.sum_per_osd, pg.sum_per_osd) = ActingTotal

\* two PG records of two pools, one of them acting on both OSDs: three
\* credits, spread over two OSDs and two pools
C16_Witness ==
    /\ Ran("pg_distribution")
    /\ ~FailedIn("pg_distribution")
    /\ ~IsNone(storage.pg_dump)
    /\ Len(Val(storage.pg_dump)) = 2
    /\ ActingTotal = 3
    /\ DOMAIN pg.sum_per_osd = {0, 1}
    /\ DOMAIN pg.sum_per_pool = {"rbd", "cephfs"}
    /\ SumOver(DOMAIN pg.sum_per_pool, pg.sum_per_pool) = 3

\* C15 as stated: as its last phase, load reads the collection-timestamp
\* artifact and, given an artifact of exactly two newline-separated fields
\* (local time, then GMT time), sets report_collected_at_local and
\* report_collected_at_gmt to those two fields and finishes without error.
C15_TwoFieldStamp ==
    (Len(storage.collected_at) = 2 /\ Ran("collected_at")) =>
        /\ pc = "done"
        /\ report_collected_at = [local |-> Some(storage.collected_at[1]),
                                  gmt |-> Some(storage.collected_at[2])]

\* C15 amended: the collection timestamp is read as the last phase, after the
\* ten others; given an artifact of exactly three newline-separated fields
\* (local time, GMT time and a third field that is ignored) the load sets
\* report_collected_at_local and report_collected_at_gmt to the first two and
\* finishes without error, and given any other number of fields, two
\* included, it raises ValueError and leaves both unset.
C15_ThreeFieldStamp ==
    /\ ~Ran("collected_at") => report_collected_at = [local |-> None, gmt |-> None]
    /\ Ran("collected_at") =>
          /\ ran = PhaseOrder
          /\ ran[Len(ran)] = "collected_at"
          /\ IF Len(storage.collected_at) = 3
             THEN /\ pc = "done"
                  /\ error = NoErr
                  /\ report_collected_at = [local |-> Some(storage.collected_at[1]),
                                            gmt |-> Some(storage.collected_at[2])]
             ELSE /\ pc = "failed"
                  /\ error = "ValueError"
                  /\ report_collected_at = [local |-> None, gmt |-> None]

\* a three-field artifact has been read at the end of a load
C15_Witness ==
    /\ pc = "done"
    /\ storage.collected_at = << "local", "gmt", "tz" >>
    /\ report_collected_at = [local |-> Some("local"), gmt |-> Some("gmt")]
    /\ ran[Len(ran)] = "collected_at"

\* the fields Pool.__init__ sets from the pool dump, apart from extra
IdentityFields == {"id", "name", "size", "min_size", "pg", "pgp", "crush_rule"}

\* the pool built from the pool dump for the key k of the pools mapping
DumpedAs(k) ==
    LET info == CHOOSE x \in SeqToSet(storage.pool_dump) : x["pool"] = k
    IN  NewPool(info, IF is_luminous THEN "crush_rule" ELSE "crush_ruleset")

\* C17: merging the usage statistics leaves the identity of every pool alone:
\* after load_pools the pool under key k has id k, and its name, size,
\* min_size, pg, pgp and crush_rule are those of the pool dump, whatever keys
\* the usage record or its category carries.
C17_PoolIdentityKept ==
    Ran("pools") =>
        \A k \in DOMAIN pools :
            /\ pools[k]["id"] = k
            /\ \A f \in IdentityFields : pools[k][f] = DumpedAs(k)[f]

====
